---- MODULE Spec2Model ----
\* Model of drivers/net/mlx5/windows/mlx5_flow_os.c: the Windows flow-steering
\* glue of the mlx5 PMD (attribute validation, matcher create/destroy and the
\* not-supported stubs for actions and flow rules).
EXTENDS Integers, Sequences, FiniteSets, TLC

\* ------------------------------------------------------------------ bounds

\* Number of blocks the allocator can hand out at the same time.
MaxAddr == 2

\* MLX5_ST_SZ_BYTES(fte_match_param), scaled down: the length of a match buffer.
MatchParamBytes == 2

\* --------------------------------------------------------------- constants

\* errno values of the platform's errno.h, as used by the source.
ENOTSUP == 129
ENOMEM == 12
EINVAL == 22

\* The null pointer; block addresses are 1..MaxAddr.
NULL == 0

Addr == 1..MaxAddr
Handles == Addr \cup {NULL}

\* enum ibv_flow_attr_type: the value the source accepts and one it rejects.
IBV_FLOW_ATTR_NORMAL == "IBV_FLOW_ATTR_NORMAL"
AttrTypes == {IBV_FLOW_ATTR_NORMAL, "IBV_FLOW_ATTR_SNIFFER"}

\* Values of a uint32_t attribute field (group, priority).
U32Vals == {0, 1, 2147483647}

\* struct rte_flow_attr, the fields the validator reads plus egress.
FlowAttributes ==
    [group : U32Vals, priority : U32Vals,
     transfer : BOOLEAN, ingress : BOOLEAN, egress : BOOLEAN]

\* One request that obeys every limit and one for each limit, breaking it alone.
RequestSamples ==
    { [group |-> 0, priority |-> 0, transfer |-> FALSE, ingress |-> TRUE, egress |-> FALSE],
      [group |-> 1, priority |-> 0, transfer |-> FALSE, ingress |-> TRUE, egress |-> FALSE],
      [group |-> 0, priority |-> 1, transfer |-> FALSE, ingress |-> TRUE, egress |-> FALSE],
      [group |-> 0, priority |-> 0, transfer |-> TRUE, ingress |-> TRUE, egress |-> FALSE],
      [group |-> 0, priority |-> 0, transfer |-> FALSE, ingress |-> FALSE, egress |-> TRUE] }

\* Contents of a match buffer: all clear, all set, last byte only.
MatchBufs ==
    { [i \in 1..MatchParamBytes |-> 0],
      [i \in 1..MatchParamBytes |-> 255],
      [i \in 1..MatchParamBytes |-> IF i = MatchParamBytes THEN 255 ELSE 0] }

\* The caller's struct mlx5dv_flow_match_parameters object, as a pointer value.
MaskPtr == "match_mask"

\* struct mlx5dv_flow_matcher_attr: the fields the source reads.
MatcherAttrs == [type : AttrTypes, match_mask : {MaskPtr}]

\* What a block may hold when the allocator picks it.
StaleBufs ==
    { [i \in 1..MatchParamBytes |-> 0], [i \in 1..MatchParamBytes |-> 255] }

\* Values of an output handle before a call: null and not null.
PrevHandles == {NULL, 1}

Ctxs == {"ctx"}
Tables == {"tbl"}

\* A block of the allocator that holds no matcher.
FreeBlock ==
    [live |-> FALSE, ctx |-> "none", attr |-> "none", match_buf |-> <<>>]

\* ------------------------------------------------------------------- state

VARIABLES
    heap,        \* Addr -> struct mlx5_matcher block (or FreeBlock)
    callerMask,  \* match_buf of the caller's match-mask object (*attr->match_mask)
    callerAttr,  \* the caller's attribute descriptor (*attr)
    rte_errno,   \* the per-thread last-error slot
    ret,         \* return value of the last call
    out,         \* *matcher / *action / *flow after the last call (NULL if none)
    error,       \* what the last call wrote into struct rte_flow_error
    allocCalls,  \* number of mlx5_malloc calls the last call made
    actions,     \* live Action objects
    flows,       \* live FlowRule objects
    reqState,    \* lifecycle of the current request: "Unvalidated" or "Validated"
    reqPermitted,\* history: the attributes last validated obey the four limits
    lastOp,      \* history: the last operation called
    lastIn,      \* history: the inputs of the last call
    origin,      \* history: Addr -> the inputs a live matcher was created from
    ref          \* history: the most recently destroyed matcher

vars == <<heap, callerMask, callerAttr, rte_errno, ret, out, error, allocCalls,
          actions, flows, reqState, reqPermitted, lastOp, lastIn, origin, ref>>

NoOrigin == [mask |-> <<>>, attr |-> "none"]
NoRef == [valid |-> FALSE, mask |-> <<>>, stored |-> <<>>]

\* --------------------------------------------------------- pure functions

\* rte_flow_error_set(error, code, type, cause, message): fills *error, sets
\* rte_errno = code and returns -code.
rte_flow_error_set(code, type, cause, message) ==
    [ret |-> -code, seterr |-> TRUE, code |-> code,
     error |-> <<[type |-> type, cause |-> cause, message |-> message]>>]

validate_priority_first(attributes, external) ==
    IF attributes.priority # 0
    THEN rte_flow_error_set(ENOTSUP, "RTE_FLOW_ERROR_TYPE_ATTR_PRIORITY", NULL,
                            "priorities are not supported")
    ELSE IF attributes.group # 0
    THEN rte_flow_error_set(ENOTSUP, "RTE_FLOW_ERROR_TYPE_ATTR_GROUP", NULL,
                            "groups are not supported")
    ELSE IF attributes.transfer
    THEN rte_flow_error_set(ENOTSUP, "RTE_FLOW_ERROR_TYPE_ATTR_TRANSFER", NULL,
                            "transfer not supported")
    ELSE IF ~attributes.ingress
    THEN rte_flow_error_set(ENOTSUP, "RTE_FLOW_ERROR_TYPE_ATTR_INGRESS", NULL,
                            "must specify ingress only")
    ELSE [ret |-> 1, seterr |-> FALSE, code |-> 0, error |-> <<>>]

validate_ingress_only(attributes, external) ==
    IF attributes.group # 0
    THEN rte_flow_error_set(ENOTSUP, "RTE_FLOW_ERROR_TYPE_ATTR_GROUP", NULL,
                            "groups are not supported")
    ELSE IF attributes.priority # 0
    THEN rte_flow_error_set(ENOTSUP, "RTE_FLOW_ERROR_TYPE_ATTR_PRIORITY", NULL,
                            "priorities are not supported")
    ELSE IF attributes.transfer
    THEN rte_flow_error_set(ENOTSUP, "RTE_FLOW_ERROR_TYPE_ATTR_TRANSFER", NULL,
                            "transfer not supported")
    ELSE IF ~attributes.ingress \/ attributes.egress
    THEN rte_flow_error_set(ENOTSUP, "RTE_FLOW_ERROR_TYPE_ATTR_INGRESS", NULL,
                            "must specify ingress only")
    ELSE [ret |-> 1, seterr |-> FALSE, code |-> 0, error |-> <<>>]

validate_group_allowed(attributes, external) ==
    IF attributes.priority # 0
    THEN rte_flow_error_set(ENOTSUP, "RTE_FLOW_ERROR_TYPE_ATTR_PRIORITY", NULL,
                            "priorities are not supported")
    ELSE IF attributes.transfer
    THEN rte_flow_error_set(ENOTSUP, "RTE_FLOW_ERROR_TYPE_ATTR_TRANSFER", NULL,
                            "transfer not supported")
    ELSE IF ~attributes.ingress
    THEN rte_flow_error_set(ENOTSUP, "RTE_FLOW_ERROR_TYPE_ATTR_INGRESS", NULL,
                            "must specify ingress only")
    ELSE [ret |-> 1, seterr |-> FALSE, code |-> 0, error |-> <<>>]

\* mlx5_flow_os_validate_flow_attributes(dev, attributes, external, error);
\* dev is unused.
mlx5_flow_os_validate_flow_attributes(attributes, external) ==
    IF attributes.group # 0
    THEN rte_flow_error_set(ENOTSUP, "RTE_FLOW_ERROR_TYPE_ATTR_GROUP", NULL,
                            "groups are not supported")
    ELSE IF attributes.priority # 0
    THEN rte_flow_error_set(ENOTSUP, "RTE_FLOW_ERROR_TYPE_ATTR_PRIORITY", NULL,
                            "priorities are not supported")
    ELSE IF attributes.transfer
    THEN rte_flow_error_set(ENOTSUP, "RTE_FLOW_ERROR_TYPE_ATTR_TRANSFER", NULL,
                            "transfer not supported")
    ELSE IF ~attributes.ingress
    THEN rte_flow_error_set(ENOTSUP, "RTE_FLOW_ERROR_TYPE_ATTR_INGRESS", NULL,
                            "must specify ingress only")
    ELSE [ret |-> 1, seterr |-> FALSE, code |-> 0, error |-> <<>>]

\* mlx5_malloc(MLX5_MEM_ZERO, ...): the block is handed out zero-filled whatever
\* it held before.
mlx5_malloc_zero(stale) == [i \in 1..MatchParamBytes |-> 0]

\* memcpy(dst, src, n): the first n bytes of dst become those of src.
memcpy(dst, src, n) ==
    [i \in 1..Len(dst) |-> IF i <= n THEN src[i] ELSE dst[i]]

match_buf_stale(stale, mask) == memcpy(stale, mask, MatchParamBytes - 1)

match_buf_short(stale, mask) ==
    memcpy(mlx5_malloc_zero(stale), mask, MatchParamBytes - 1)

\* The match_buf of a new matcher: the zero-filled block with the caller's mask
\* copied over its MLX5_ST_SZ_BYTES(fte_match_param) bytes.
match_buf_init(stale, mask) ==
    memcpy(mlx5_malloc_zero(stale), mask, MatchParamBytes)

wrong_type_keeps_out(prev) ==
    [ret |-> -ENOTSUP, seterr |-> TRUE, code |-> ENOTSUP, matcher |-> prev,
     allocs |-> 0, block |-> FreeBlock]

wrong_type_einval(prev) ==
    [ret |-> -EINVAL, seterr |-> TRUE, code |-> EINVAL, matcher |-> NULL,
     allocs |-> 0, block |-> FreeBlock]

\* create_flow_matcher, the path of a descriptor type other than NORMAL.
matcher_wrong_type(prev) ==
    [ret |-> -ENOTSUP, seterr |-> TRUE, code |-> ENOTSUP, matcher |-> NULL,
     allocs |-> 0, block |-> FreeBlock]

\* create_flow_matcher, the path of mlx5_malloc returning NULL.
matcher_no_memory(prev) ==
    [ret |-> -ENOMEM, seterr |-> TRUE, code |-> ENOMEM, matcher |-> NULL,
     allocs |-> 1, block |-> FreeBlock]

\* create_flow_matcher, the path that fills the block p and returns it.
matcher_filled(ctx, attr, p, stale, mask) ==
    [ret |-> 0, seterr |-> FALSE, code |-> 0, matcher |-> p, allocs |-> 1,
     block |-> [live |-> TRUE, ctx |-> ctx, attr |-> attr,
                match_buf |-> match_buf_init(stale, mask)]]

create_matcher_unchecked(ctx, attr, table, prev, p, stale, mask) ==
    IF p = NULL
    THEN matcher_no_memory(prev)
    ELSE matcher_filled(ctx, attr, p, stale, mask)

\* mlx5_flow_os_create_flow_matcher(ctx, attr, table, matcher). prev is *matcher
\* before the call, p the pointer mlx5_malloc returns when it is called (NULL:
\* no memory), stale what that block held, mask the bytes of
\* attr->match_mask->match_buf. table is unused.
mlx5_flow_os_create_flow_matcher(ctx, attr, table, prev, p, stale, mask) ==
    IF attr.type # IBV_FLOW_ATTR_NORMAL
    THEN matcher_wrong_type(prev)
    ELSE IF p = NULL
    THEN matcher_no_memory(prev)
    ELSE matcher_filled(ctx, attr, p, stale, mask)

\* mlx5_free(addr): releases the block; a null pointer is ignored.
mlx5_free(h, p) == IF p = NULL THEN h ELSE [h EXCEPT ![p] = FreeBlock]

destroy_matcher_all(h, matcher) ==
    [ret |-> 0, heap |-> [a \in Addr |-> FreeBlock]]

\* mlx5_flow_os_destroy_flow_matcher(matcher), on the allocator state h.
mlx5_flow_os_destroy_flow_matcher(h, matcher) ==
    [ret |-> 0, heap |-> mlx5_free(h, matcher)]

create_action_works(tir, prev) ==
    [ret |-> 0, seterr |-> FALSE, code |-> 0, action |-> 1]

\* mlx5_flow_os_create_flow_action_dest_devx_tir(tir, action); prev is *action
\* before the call.
mlx5_flow_os_create_flow_action_dest_devx_tir(tir, prev) ==
    [ret |-> -ENOTSUP, seterr |-> TRUE, code |-> ENOTSUP, action |-> NULL]

\* mlx5_flow_os_destroy_flow_action(action).
mlx5_flow_os_destroy_flow_action(action) ==
    [ret |-> -ENOTSUP, seterr |-> TRUE, code |-> ENOTSUP]

create_flow_keeps_out(matcher, match_value, num_actions, acts, prev) ==
    [ret |-> -ENOTSUP, seterr |-> TRUE, code |-> ENOTSUP, flow |-> prev]

\* mlx5_flow_os_create_flow(matcher, match_value, num_actions, actions, flow);
\* prev is *flow before the call.
mlx5_flow_os_create_flow(matcher, match_value, num_actions, acts, prev) ==
    [ret |-> -ENOTSUP, seterr |-> TRUE, code |-> ENOTSUP, flow |-> NULL]

\* mlx5_flow_os_destroy_flow(drv_flow_ptr).
mlx5_flow_os_destroy_flow(drv_flow_ptr) ==
    [ret |-> -ENOTSUP, seterr |-> TRUE, code |-> ENOTSUP]

\* What the pointer attr.match_mask of a descriptor refers to.
Deref(ptr) == callerMask

\* The state of the flow-rule lifecycle of section 4.4.
Lifecycle ==
    IF flows # {} THEN "Installed"
    ELSE IF actions # {} THEN "ActionsBound"
    ELSE IF \E a \in Addr : heap[a].live THEN "MatcherBound"
    ELSE reqState

\* The four platform limits of section 4.1, as a predicate on the attributes.
Permitted(attributes) ==
    /\ attributes.group = 0
    /\ attributes.priority = 0
    /\ ~attributes.transfer
    /\ attributes.ingress

\* ---------------------------------------------------------------- actions

Init ==
    /\ heap = [a \in Addr |-> FreeBlock]
    /\ callerMask \in MatchBufs
    /\ callerAttr \in MatcherAttrs
    /\ rte_errno = 0
    /\ ret = 0
    /\ out = NULL
    /\ error = <<>>
    /\ allocCalls = 0
    /\ actions = {}
    /\ flows = {}
    /\ reqState = "Unvalidated"
    /\ reqPermitted = FALSE
    /\ lastOp = "none"
    /\ lastIn = [none |-> TRUE]
    /\ origin = [a \in Addr |-> NoOrigin]
    /\ ref = NoRef

\* The caller overwrites the bytes of its match-mask object.
WriteMask ==
    /\ \E m \in MatchBufs \ {callerMask} : callerMask' = m
    /\ UNCHANGED <<heap, callerAttr, rte_errno, ret, out, error, allocCalls,
                   actions, flows, reqState, reqPermitted, lastOp, lastIn,
                   origin, ref>>

\* The caller overwrites its attribute descriptor.
WriteAttr ==
    /\ \E d \in MatcherAttrs \ {callerAttr} : callerAttr' = d
    /\ UNCHANGED <<heap, callerMask, rte_errno, ret, out, error, allocCalls,
                   actions, flows, reqState, reqPermitted, lastOp, lastIn,
                   origin, ref>>

ValidateCall(attributes, external) ==
        LET r == mlx5_flow_os_validate_flow_attributes(attributes, external) IN
        /\ ret' = r.ret
        /\ rte_errno' = IF r.seterr THEN r.code ELSE rte_errno
        /\ error' = r.error
        /\ out' = NULL
        /\ allocCalls' = 0
        /\ reqState' = IF r.ret >= 0 THEN "Validated" ELSE "Unvalidated"
        /\ reqPermitted' = Permitted(attributes)
        /\ lastOp' = "validate_flow_attributes"
        /\ lastIn' = [attributes |-> attributes, external |-> external]
        /\ UNCHANGED <<heap, callerMask, callerAttr, actions, flows, origin, ref>>

\* The validator called on a request of the upper layer.
ValidateFlowAttributes ==
    \E attributes \in RequestSamples, external \in BOOLEAN :
        ValidateCall(attributes, external)

\* The validator called on any attributes.
ValidateAnyFlowAttributes ==
    \E attributes \in FlowAttributes, external \in BOOLEAN :
        ValidateCall(attributes, external)

CreateFlowMatcher ==
    \E ctx \in Ctxs, table \in Tables, prev \in PrevHandles, stale \in StaleBufs,
       p \in {a \in Addr : ~heap[a].live} \cup {NULL} :
        LET r == mlx5_flow_os_create_flow_matcher(ctx, callerAttr, table, prev,
                                                  p, stale, callerMask)
            got == r.allocs > 0 /\ p # NULL
        IN
        /\ heap' = IF got THEN [heap EXCEPT ![p] = r.block] ELSE heap
        /\ origin' = IF got /\ r.block.live
                     THEN [origin EXCEPT
                              ![p] = [mask |-> callerMask, attr |-> callerAttr]]
                     ELSE origin
        /\ ret' = r.ret
        /\ rte_errno' = IF r.seterr THEN r.code ELSE rte_errno
        /\ out' = r.matcher
        /\ error' = <<>>
        /\ allocCalls' = r.allocs
        /\ lastOp' = "create_flow_matcher"
        /\ lastIn' = [type |-> callerAttr.type, prev |-> prev]
        /\ UNCHANGED <<callerMask, callerAttr, actions, flows, reqState,
                       reqPermitted, ref>>

\* Called on a handle a successful create returned and that was not destroyed
\* since; any other handle is undefined by the contract of the function.
DestroyFlowMatcher ==
    \E matcher \in {a \in Addr : heap[a].live} :
        LET r == mlx5_flow_os_destroy_flow_matcher(heap, matcher) IN
        /\ heap' = r.heap
        /\ origin' = [a \in Addr |-> IF r.heap[a].live THEN origin[a] ELSE NoOrigin]
        /\ ref' = [valid |-> TRUE, mask |-> origin[matcher].mask,
                   stored |-> heap[matcher].match_buf]
        /\ ret' = r.ret
        /\ out' = NULL
        /\ error' = <<>>
        /\ allocCalls' = 0
        /\ lastOp' = "destroy_flow_matcher"
        /\ lastIn' = [matcher |-> matcher]
        /\ UNCHANGED <<callerMask, callerAttr, rte_errno, actions, flows,
                       reqState, reqPermitted>>

CreateFlowActionDestDevxTir ==
    \E tir \in {"tir"}, prev \in PrevHandles :
        LET r == mlx5_flow_os_create_flow_action_dest_devx_tir(tir, prev) IN
        /\ actions' = IF r.action # NULL THEN actions \cup {r.action} ELSE actions
        /\ ret' = r.ret
        /\ rte_errno' = IF r.seterr THEN r.code ELSE rte_errno
        /\ out' = r.action
        /\ error' = <<>>
        /\ allocCalls' = 0
        /\ lastOp' = "create_flow_action_dest_devx_tir"
        /\ lastIn' = [prev |-> prev]
        /\ UNCHANGED <<heap, callerMask, callerAttr, flows, reqState,
                       reqPermitted, origin, ref>>

DestroyFlowAction ==
    \E action \in PrevHandles :
        LET r == mlx5_flow_os_destroy_flow_action(action) IN
        /\ ret' = r.ret
        /\ rte_errno' = IF r.seterr THEN r.code ELSE rte_errno
        /\ out' = NULL
        /\ error' = <<>>
        /\ allocCalls' = 0
        /\ lastOp' = "destroy_flow_action"
        /\ lastIn' = [handle |-> action]
        /\ UNCHANGED <<heap, callerMask, callerAttr, actions, flows, reqState,
                       reqPermitted, origin, ref>>

CreateFlow ==
    \E matcher \in PrevHandles, match_value \in {<<>>, [i \in 1..MatchParamBytes |-> 255]},
       num_actions \in 0..1, prev \in PrevHandles :
        LET acts == [i \in 1..num_actions |-> NULL]
            r == mlx5_flow_os_create_flow(matcher, match_value, num_actions,
                                          acts, prev)
        IN
        /\ flows' = IF r.flow # NULL THEN flows \cup {r.flow} ELSE flows
        /\ ret' = r.ret
        /\ rte_errno' = IF r.seterr THEN r.code ELSE rte_errno
        /\ out' = r.flow
        /\ error' = <<>>
        /\ allocCalls' = 0
        /\ lastOp' = "create_flow"
        /\ lastIn' = [num_actions |-> num_actions,
                      match_len |-> Len(match_value), prev |-> prev]
        /\ UNCHANGED <<heap, callerMask, callerAttr, actions, reqState,
                       reqPermitted, origin, ref>>

DestroyFlow ==
    \E drv_flow_ptr \in PrevHandles :
        LET r == mlx5_flow_os_destroy_flow(drv_flow_ptr) IN
        /\ ret' = r.ret
        /\ rte_errno' = IF r.seterr THEN r.code ELSE rte_errno
        /\ out' = NULL
        /\ error' = <<>>
        /\ allocCalls' = 0
        /\ lastOp' = "destroy_flow"
        /\ lastIn' = [handle |-> drv_flow_ptr]
        /\ UNCHANGED <<heap, callerMask, callerAttr, actions, flows, reqState,
                       reqPermitted, origin, ref>>

\* Any sequence of the eight operations, the caller's writes interleaved.
Next ==
    \/ WriteMask
    \/ WriteAttr
    \/ ValidateFlowAttributes
    \/ CreateFlowMatcher
    \/ DestroyFlowMatcher
    \/ CreateFlowActionDestDevxTir
    \/ DestroyFlowAction
    \/ CreateFlow
    \/ DestroyFlow

Spec == Init /\ [][Next]_vars

\* The validator alone, on every value of the attributes.
ValidatorNext == ValidateAnyFlowAttributes

ValidatorSpec == Init /\ [][ValidatorNext]_vars

\* A step that is a call of op (the caller's own writes leave lastOp alone).
CallStep(op) ==
    /\ lastOp' = op
    /\ callerMask' = callerMask
    /\ callerAttr' = callerAttr

Live == {a \in Addr : heap[a].live}

\* ------------------------------------------------------------------ claims

\* C1: the validator reports the first violated limit in the order group,
\* priority, transfer, ingress, as ENOTSUP with the error type of that
\* attribute, whatever the later fields are, and a rejected call writes exactly
\* one error.
C1_FirstViolationWins ==
    lastOp = "validate_flow_attributes" =>
        LET a == lastIn.attributes
            Rejects(type) ==
                /\ ret = -ENOTSUP
                /\ rte_errno = ENOTSUP
                /\ Len(error) = 1
                /\ error[1].type = type
        IN
        /\ a.group # 0 => Rejects("RTE_FLOW_ERROR_TYPE_ATTR_GROUP")
        /\ (a.group = 0 /\ a.priority # 0)
               => Rejects("RTE_FLOW_ERROR_TYPE_ATTR_PRIORITY")
        /\ (a.group = 0 /\ a.priority = 0 /\ a.transfer)
               => Rejects("RTE_FLOW_ERROR_TYPE_ATTR_TRANSFER")
        /\ (a.group = 0 /\ a.priority = 0 /\ ~a.transfer /\ ~a.ingress)
               => Rejects("RTE_FLOW_ERROR_TYPE_ATTR_INGRESS")
        /\ ret < 0 => Len(error) = 1

\* A call that breaks the group, priority and ingress limits reported group.
C1_Witness ==
    /\ lastOp = "validate_flow_attributes"
    /\ lastIn.attributes.group # 0
    /\ lastIn.attributes.priority # 0
    /\ ~lastIn.attributes.ingress
    /\ Len(error) = 1
    /\ error[1].type = "RTE_FLOW_ERROR_TYPE_ATTR_GROUP"

\* C2: attributes with group 0, priority 0, no transfer and ingress set are
\* accepted with status 1 and nothing written to the error sink, for either
\* value of egress and of external; the validator never returns 0.
C2_AcceptsRootTable ==
    lastOp = "validate_flow_attributes" =>
        LET a == lastIn.attributes IN
        /\ (a.group = 0 /\ a.priority = 0 /\ ~a.transfer /\ a.ingress)
               => (ret = 1 /\ error = <<>>)
        /\ ret # 0

\* An accepted call with egress and external both set.
C2_Witness ==
    /\ lastOp = "validate_flow_attributes"
    /\ lastIn.attributes.egress
    /\ lastIn.attributes.ingress
    /\ lastIn.external
    /\ ret = 1
    /\ error = <<>>

\* C3: create_flow_matcher on a descriptor whose type is not NORMAL fails with
\* ENOTSUP, leaves the output handle null and never reaches the allocator: the
\* call makes no mlx5_malloc call and the blocks are as before the call.
C3_WrongTypeNoAllocation ==
    [][(CallStep("create_flow_matcher") /\ callerAttr.type # IBV_FLOW_ATTR_NORMAL)
          => /\ ret' = -ENOTSUP
             /\ rte_errno' = ENOTSUP
             /\ out' = NULL
             /\ allocCalls' = 0
             /\ heap' = heap]_vars

\* A rejected descriptor while a matcher is live and the handle held a value.
C3_Witness ==
    /\ lastOp = "create_flow_matcher"
    /\ lastIn.type # IBV_FLOW_ATTR_NORMAL
    /\ lastIn.prev # NULL
    /\ ret = -ENOTSUP
    /\ out = NULL
    /\ allocCalls = 0
    /\ Live # {}

\* C5: every create that fails returns with the output handle null, whatever
\* the handle held before, and leaves no new object live; a failed allocation
\* in create_flow_matcher returns ENOMEM.
C5_FailureLeavesNothing ==
    [][\A op \in {"create_flow_matcher", "create_flow_action_dest_devx_tir",
                  "create_flow"} :
          (CallStep(op) /\ ret' < 0)
              => /\ out' = NULL
                 /\ heap' = heap
                 /\ actions' = actions
                 /\ flows' = flows
                 /\ (op = "create_flow_matcher" /\ allocCalls' > 0)
                        => (ret' = -ENOMEM /\ rte_errno' = ENOMEM)]_vars

\* An allocation failure with a handle that held a value before the call.
C5_Witness ==
    /\ lastOp = "create_flow_matcher"
    /\ lastIn.type = IBV_FLOW_ATTR_NORMAL
    /\ lastIn.prev # NULL
    /\ allocCalls = 1
    /\ ret = -ENOMEM
    /\ rte_errno = ENOMEM
    /\ out = NULL

\* C6: action create and destroy and flow-rule create and destroy fail with
\* ENOTSUP for every input, the two creates leave the output handle null, no
\* Action and no FlowRule ever exists, and the lifecycle stays within
\* Unvalidated, Validated and the matcher level.
C6_StubsNotSupported ==
    /\ lastOp \in {"create_flow_action_dest_devx_tir", "destroy_flow_action",
                   "create_flow", "destroy_flow"}
           => (ret = -ENOTSUP /\ rte_errno = ENOTSUP /\ out = NULL)
    /\ actions = {}
    /\ flows = {}
    /\ Lifecycle \in {"Unvalidated", "Validated", "MatcherBound"}

\* A flow-rule create with no actions and an empty match value, on a validated
\* request with a live matcher.
C6_Witness ==
    /\ lastOp = "create_flow"
    /\ lastIn.num_actions = 0
    /\ lastIn.match_len = 0
    /\ lastIn.prev # NULL
    /\ reqState = "Validated"
    /\ Live # {}
    /\ ret = -ENOTSUP
    /\ out = NULL

\* C7 as stated: no matcher is created unless the validator accepted the
\* request's attributes first.
C7_Original ==
    (lastOp = "create_flow_matcher" /\ ret = 0) => reqState = "Validated"

\* C7 as amended: create_flow_matcher does not consult the validation (it
\* succeeds exactly when the descriptor type is NORMAL and the allocator
\* delivers); the order is the caller's to keep, and a matcher created for a
\* request the validator accepted is one for attributes within the four limits.
C7_CallerKeepsOrder ==
    lastOp = "create_flow_matcher" =>
        /\ ret = 0 <=> (lastIn.type = IBV_FLOW_ATTR_NORMAL /\ out # NULL)
        /\ (ret = 0 /\ reqState = "Validated") => reqPermitted

\* A matcher created right after the validator accepted the request.
C7_Witness ==
    /\ lastOp = "create_flow_matcher"
    /\ ret = 0
    /\ reqState = "Validated"
    /\ reqPermitted
    /\ out \in Live

\* C8 as stated: a descriptor of the wrong type is reported as EINVAL.
C8_Original ==
    (lastOp = "create_flow_matcher" /\ lastIn.type # IBV_FLOW_ATTR_NORMAL)
        => (ret = -EINVAL /\ rte_errno = EINVAL)

\* C8 as amended: a descriptor of the wrong type is reported as ENOTSUP; the
\* only other error of create_flow_matcher is ENOMEM, and EINVAL is never
\* reported.
C8_WrongTypeIsNotSupported ==
    (lastOp = "create_flow_matcher" /\ ret # 0) =>
        /\ lastIn.type # IBV_FLOW_ATTR_NORMAL
               => (ret = -ENOTSUP /\ rte_errno = ENOTSUP)
        /\ lastIn.type = IBV_FLOW_ATTR_NORMAL
               => (ret = -ENOMEM /\ rte_errno = ENOMEM)
        /\ rte_errno # EINVAL

\* A descriptor of the wrong type reported as ENOTSUP.
C8_Witness ==
    /\ lastOp = "create_flow_matcher"
    /\ lastIn.type # IBV_FLOW_ATTR_NORMAL
    /\ rte_errno = ENOTSUP
    /\ ret = -ENOTSUP

\* C4 as stated: the stored mask equals the input mask, and nothing reachable
\* through the stored matcher, its attribute copy included, follows later
\* writes of the caller to its descriptor or its match-mask object.
C4_Original ==
    \A a \in Live :
        /\ heap[a].match_buf = origin[a].mask
        /\ heap[a].attr = origin[a].attr
        /\ Deref(heap[a].attr.match_mask) = origin[a].mask

\* C4 as amended: the stored mask equals the input mask over all
\* MatchParamBytes bytes, and the stored mask and the fields of the attribute
\* copy (type, and match_mask as a pointer value) keep the values of the time of
\* creation whatever the caller writes later. The copied match_mask pointer
\* still refers to the caller's object.
C4_StoredCopyIndependent ==
    \A a \in Live :
        /\ Len(heap[a].match_buf) = MatchParamBytes
        /\ heap[a].match_buf = origin[a].mask
        /\ heap[a].attr = origin[a].attr
        /\ heap[a].attr.match_mask = MaskPtr

\* A live matcher whose caller has since rewritten both the mask object and
\* the descriptor.
C4_Witness ==
    \E a \in Live :
        /\ callerMask # origin[a].mask
        /\ callerAttr # origin[a].attr
        /\ heap[a].match_buf = origin[a].mask
        /\ heap[a].match_buf[MatchParamBytes] = 255

\* C9: a matcher created from the same mask as the matcher destroyed before it
\* stores the same mask bytes as that one did.
C9_RoundTrip ==
    (lastOp = "create_flow_matcher" /\ ret = 0 /\ ref.valid
        /\ origin[out].mask = ref.mask)
        => heap[out].match_buf = ref.stored

\* Create, destroy, create again from the same mask, which is not all clear.
C9_Witness ==
    /\ lastOp = "create_flow_matcher"
    /\ ret = 0
    /\ ref.valid
    /\ origin[out].mask = ref.mask
    /\ ref.mask[MatchParamBytes] = 255
    /\ heap[out].match_buf = ref.stored

\* C10: destroy_flow_matcher on a live matcher returns 0 and releases that
\* matcher and no other: every other block is as before.
C10_DestroyReleasesOne ==
    [][CallStep("destroy_flow_matcher") =>
          LET m == lastIn'.matcher IN
          heap[m].live =>
              /\ ret' = 0
              /\ ~heap'[m].live
              /\ \A b \in Addr \ {m} : heap'[b] = heap[b]]_vars

\* A destroy that left another matcher live.
C10_Witness ==
    /\ lastOp = "destroy_flow_matcher"
    /\ ret = 0
    /\ ~heap[lastIn.matcher].live
    /\ Live # {}

====
